---- MODULE Spec2Model ----
(***************************************************************************)
(* rag-my-pdf (src/main.rs): a PDF is loaded, its text is chunked by       *)
(* chunk_text, every chunk is handed to the embeddings builder, the        *)
(* in-memory vector store is built from the embeddings and the chatbot     *)
(* loop runs over it.                                                      *)
(*                                                                         *)
(* Strings are sequences of one-character strings, so that                 *)
(* split_whitespace and join are computed character by character.          *)
(***************************************************************************)
EXTENDS Integers, Sequences, FiniteSets, TLC

VARIABLES
    pc,               \* position of main / chunk_text
    pdf,              \* cli.pdf: None or Some(path)
    chunk_size,       \* cli.chunk_size
    chunk_overlap,    \* cli.chunk_overlap
    overflow_checks,  \* build profile: arithmetic overflow panics (debug) or wraps (release)
    document,         \* the loaded text
    load_failed,      \* load_pdf_content returned Err
    words,            \* chunk_text: words
    chunks,           \* chunk_text: chunks (and main's chunks once returned)
    start,            \* chunk_text: start
    iters,            \* chunk_text: number of executions of the while body
    spans,            \* chunk_text: the <<start, end>> of every window pushed
    it,               \* main: position of chunks.iter() in the for loop
    submitted,        \* documents handed to embeddings_builder.document
    embeddings,       \* result of embeddings_builder.build()
    store,            \* InMemoryVectorStore behind the index
    index_builds,     \* number of times the vector store was constructed
    history,          \* chatbot: the turns so far
    error             \* the error main returned, or the panic message

vars == <<pc, pdf, chunk_size, chunk_overlap, overflow_checks, document,
          load_failed, words, chunks, start, iters, spans, it, submitted,
          embeddings, store, index_builds, history, error>>

chunkVars == <<words, chunks, start, iters, spans>>
embedVars == <<it, submitted, embeddings, store, index_builds, history>>
cliVars == <<pdf, chunk_size, chunk_overlap, overflow_checks>>

----------------------------------------------------------------------------
\* Bounds of the model.

\* longest enumerated text, in characters
MaxLen == 7
\* largest --chunk-size and --chunk-overlap enumerated
MaxSize == 3
\* executions of the while body after which a non-terminating run is cut off
MaxIter == 10
\* chatbot turns after which the conversation is cut off
MaxTurns == 2
\* width of usize in the model (64 on the targets the program is built for)
UsizeBits == 16

UsizeMod == 2 ^ UsizeBits

\* #[arg(long, default_value = "500")] chunk_size
DefaultChunkSize == 500
\* #[arg(long, default_value = "50")] chunk_overlap
DefaultChunkOverlap == 50

\* the <<chunk_size, chunk_overlap>> pairs the command line is given
Configs == ((0..MaxSize) \X (0..MaxSize)) \cup {<<DefaultChunkSize, DefaultChunkOverlap>>}

None == "None"

----------------------------------------------------------------------------
\* Strings.

Alphabet == {"a", "b", " "}

Texts == UNION {[1..n -> Alphabet] : n \in 0..MaxLen}

\* "a b c d e f g h"
ExampleText == <<"a", " ", "b", " ", "c", " ", "d", " ", "e", " ", "f", " ",
                 "g", " ", "h">>

\* "The answer to life is 42 by the way"
DefaultDocument ==
    <<"T", "h", "e", " ", "a", "n", "s", "w", "e", "r", " ", "t", "o", " ",
      "l", "i", "f", "e", " ", "i", "s", " ", "4", "2", " ", "b", "y", " ",
      "t", "h", "e", " ", "w", "a", "y">>

\* texts pdf_extract may return for the given path
PdfTexts == { <<>>,
              <<" ", "\n">>,
              <<"a">>,
              <<"a", " ", "b", "\n", "c">>,
              <<"a", "b", "\n", "\n", "c", " ", "d", "\t", "e", " ", "f", "\n">> }

IsWhitespace(c) == c \in {" ", "\n", "\t", "\r"}

RECURSIVE SplitFrom(_, _, _, _)
SplitFrom(t, i, cur, acc) ==
    IF i > Len(t)
    THEN IF cur = <<>> THEN acc ELSE Append(acc, cur)
    ELSE IF IsWhitespace(t[i])
         THEN SplitFrom(t, i + 1, <<>>, IF cur = <<>> THEN acc ELSE Append(acc, cur))
         ELSE SplitFrom(t, i + 1, Append(cur, t[i]), acc)

\* str::split_whitespace: the maximal runs of non-whitespace characters
SplitWhitespace(t) == SplitFrom(t, 1, <<>>, <<>>)

RECURSIVE JoinWith(_, _)
JoinWith(ws, sep) ==
    IF ws = <<>> THEN <<>>
    ELSE IF Len(ws) = 1 THEN ws[1]
    ELSE ws[1] \o sep \o JoinWith(Tail(ws), sep)

\* a mutant of JoinWords: the words are joined with no separator
JoinWords_NoSeparator(ws) == JoinWith(ws, <<>>)

\* words[start..end].join(" ")
JoinWords(ws) == JoinWith(ws, <<" ">>)

----------------------------------------------------------------------------
\* usize arithmetic.

Min(a, b) == IF a <= b THEN a ELSE b

WrappingAdd(a, b) == (a + b) % UsizeMod

WrappingSub(a, b) == (a - b) % UsizeMod

\* (start + chunk_size).min(words.len())
WindowEnd(s, size, n) == Min(WrappingAdd(s, size), n)

\* a mutant of WhileCond: the loop is entered once more at the end of the words
WhileCond_Inclusive(s, n) == s <= n

\* while start < words.len()
WhileCond(s, n) == s < n

\* a mutant of ReachedEnd: the break is missing
ReachedEnd_Never(e, n) == FALSE

\* if end >= words.len() { break; }
ReachedEnd(e, n) == e >= n

\* a mutant of Step: the overlap is ignored
Step_IgnoreOverlap(size, overlap) == size

\* a mutant of Step: the step is one word too long
Step_OneTooFar(size, overlap) == WrappingAdd(WrappingSub(size, overlap), 1)

\* chunk_size - overlap
Step(size, overlap) == WrappingSub(size, overlap)

\* chunk_size - overlap or start += ... overflows usize
StepOverflows(s, size, overlap) ==
    \/ overlap > size
    \/ s + Step(size, overlap) >= UsizeMod

----------------------------------------------------------------------------
\* chunk_text.

\* entry: words is the whitespace split of the text, chunks is empty, start is 0
ChunkEnter ==
    /\ pc = "chunk_call"
    /\ words' = SplitWhitespace(document)
    /\ chunks' = <<>>
    /\ start' = 0
    /\ iters' = 0
    /\ spans' = <<>>
    /\ pc' = "while"
    /\ UNCHANGED <<cliVars, document, load_failed, embedVars, error>>

\* one execution of the while body
ChunkIter ==
    /\ pc = "while"
    /\ WhileCond(start, Len(words))
    /\ iters < MaxIter
    /\ LET end == WindowEnd(start, chunk_size, Len(words))
           chunk == JoinWords(SubSeq(words, start + 1, end))
       IN /\ chunks' = Append(chunks, chunk)
          /\ spans' = Append(spans, <<start, end>>)
          /\ iters' = iters + 1
          /\ IF ReachedEnd(end, Len(words))
             THEN /\ pc' = "chunked"
                  /\ UNCHANGED <<start, error>>
             ELSE IF overflow_checks /\ StepOverflows(start, chunk_size, chunk_overlap)
                  THEN /\ pc' = "panicked"
                       /\ error' = IF chunk_overlap > chunk_size
                                   THEN "attempt to subtract with overflow"
                                   ELSE "attempt to add with overflow"
                       /\ UNCHANGED start
                  ELSE /\ start' = WrappingAdd(start, Step(chunk_size, chunk_overlap))
                       /\ pc' = "while"
                       /\ UNCHANGED error
    /\ UNCHANGED <<cliVars, document, load_failed, words, embedVars>>

\* the while condition is false: chunks is returned
ChunkLoopExit ==
    /\ pc = "while"
    /\ ~WhileCond(start, Len(words))
    /\ pc' = "chunked"
    /\ UNCHANGED <<cliVars, document, load_failed, chunkVars, embedVars, error>>

ChunkNext == ChunkEnter \/ ChunkIter \/ ChunkLoopExit

\* chunk_text on its own, applied to every text, size and overlap of the bounds
ChunkInit ==
    /\ pc = "chunk_call"
    /\ pdf = None
    /\ \E c \in Configs : chunk_size = c[1] /\ chunk_overlap = c[2]
    /\ overflow_checks \in BOOLEAN
    /\ document \in Texts \cup {ExampleText, DefaultDocument}
    /\ load_failed = FALSE
    /\ words = <<>>
    /\ chunks = <<>>
    /\ start = 0
    /\ iters = 0
    /\ spans = <<>>
    /\ it = 0
    /\ submitted = <<>>
    /\ embeddings = <<>>
    /\ store = <<>>
    /\ index_builds = 0
    /\ history = <<>>
    /\ error = None

ChunkSpec == ChunkInit /\ [][ChunkNext]_vars

----------------------------------------------------------------------------
\* main.

\* what the user types at the chatbot prompt
Prompts == {"what is the answer?", "exit"}

\* the embedding model's vector for a text: opaque, a function of the text
EmbedVec(t) == <<"text-embedding-ada-002", t>>

\* cli.pdf is None: the default document is used
LoadDefault ==
    /\ pc = "load"
    /\ pdf = None
    /\ document' = DefaultDocument
    /\ pc' = "chunk_call"
    /\ UNCHANGED <<cliVars, load_failed, chunkVars, embedVars, error>>

\* load_pdf_content(&pdf_path) is Ok(text)
LoadPdfOk ==
    /\ pc = "load"
    /\ pdf # None
    /\ \E t \in PdfTexts : document' = t
    /\ pc' = "chunk_call"
    /\ UNCHANGED <<cliVars, load_failed, chunkVars, embedVars, error>>

\* a mutant of LoadPdfErr: the error is swallowed and the default document used
LoadPdfErr_Fallback ==
    /\ pc = "load"
    /\ pdf # None
    /\ load_failed' = TRUE
    /\ document' = DefaultDocument
    /\ pc' = "chunk_call"
    /\ UNCHANGED <<cliVars, chunkVars, embedVars, error>>

\* load_pdf_content(&pdf_path) is Err: `?` returns it from main
LoadPdfErr ==
    /\ pc = "load"
    /\ pdf # None
    /\ load_failed' = TRUE
    /\ error' = "Failed to extract text from PDF"
    /\ pc' = "failed"
    /\ UNCHANGED <<cliVars, document, chunkVars, embedVars>>

\* chunk_text has returned: the builder is created and the for loop starts
StartEmbed ==
    /\ pc = "chunked"
    /\ it' = 0
    /\ submitted' = <<>>
    /\ pc' = "embed"
    /\ UNCHANGED <<cliVars, document, load_failed, chunkVars, embeddings, store,
                   index_builds, history, error>>

\* embeddings_builder.document(chunk.clone()) is Ok
EmbedDocument ==
    /\ pc = "embed"
    /\ it < Len(chunks)
    /\ submitted' = Append(submitted, chunks[it + 1])
    /\ it' = it + 1
    /\ UNCHANGED <<pc, cliVars, document, load_failed, chunkVars, embeddings, store,
                   index_builds, history, error>>

\* a mutant of EmbedDocumentErr: the failed chunk is skipped and the loop goes on
EmbedDocumentErr_Skip ==
    /\ pc = "embed"
    /\ it < Len(chunks)
    /\ it' = it + 1
    /\ UNCHANGED <<pc, cliVars, document, load_failed, chunkVars, submitted,
                   embeddings, store, index_builds, history, error>>

\* embeddings_builder.document(chunk.clone()) is Err: `?` returns it from main
EmbedDocumentErr ==
    /\ pc = "embed"
    /\ it < Len(chunks)
    /\ error' = "EmbedError"
    /\ pc' = "failed"
    /\ UNCHANGED <<cliVars, document, load_failed, chunkVars, embedVars>>

\* embeddings_builder.build().await is Ok: every document with its embedding,
\* in the order the documents were added
EmbedBuild ==
    /\ pc = "embed"
    /\ it = Len(chunks)
    /\ embeddings' = [i \in 1..Len(submitted) |->
                         [document |-> submitted[i], vec |-> EmbedVec(submitted[i])]]
    /\ pc' = "store"
    /\ UNCHANGED <<cliVars, document, load_failed, chunkVars, it, submitted, store,
                   index_builds, history, error>>

\* embeddings_builder.build().await is Err: `?` returns it from main
EmbedBuildErr ==
    /\ pc = "embed"
    /\ it = Len(chunks)
    /\ error' = "EmbeddingError"
    /\ pc' = "failed"
    /\ UNCHANGED <<cliVars, document, load_failed, chunkVars, embedVars>>

\* InMemoryVectorStore::from_documents(embeddings), the index, the agent, the
\* chatbot and the welcome message
BuildIndex ==
    /\ pc = "store"
    /\ store' = embeddings
    /\ index_builds' = index_builds + 1
    /\ pc' = "chat"
    /\ UNCHANGED <<cliVars, document, load_failed, chunkVars, it, submitted,
                   embeddings, history, error>>

\* the sets of documents dynamic_context(2, index) may retrieve
Retrievals == {c \in SUBSET (1..Len(store)) : Cardinality(c) = Min(2, Len(store))}

\* a mutant of ChatTurn: the prompt is inserted into the vector store
ChatTurn_Insert(input, ctx) ==
    /\ pc = "chat"
    /\ input # "exit"
    /\ Len(history) < MaxTurns
    /\ history' = Append(history, [prompt |-> input, context |-> ctx])
    /\ store' = Append(store, [document |-> <<input>>, vec |-> EmbedVec(<<input>>)])
    /\ UNCHANGED <<pc, cliVars, document, load_failed, chunkVars, it, submitted,
                   embeddings, index_builds, error>>

\* chatbot.run(): one turn answered from the documents retrieved for the prompt
ChatTurn(input, ctx) ==
    /\ pc = "chat"
    /\ input # "exit"
    /\ Len(history) < MaxTurns
    /\ history' = Append(history, [prompt |-> input, context |-> ctx])
    /\ UNCHANGED <<pc, cliVars, document, load_failed, chunkVars, it, submitted,
                   embeddings, store, index_builds, error>>

\* chatbot.run().await is Err: `?` returns it from main
ChatErr ==
    /\ pc = "chat"
    /\ error' = "PromptError"
    /\ pc' = "failed"
    /\ UNCHANGED <<cliVars, document, load_failed, chunkVars, embedVars>>

\* the user types exit: chatbot.run() returns Ok and main returns Ok(())
ChatExit(input) ==
    /\ pc = "chat"
    /\ input = "exit"
    /\ pc' = "done"
    /\ UNCHANGED <<cliVars, document, load_failed, chunkVars, embedVars, error>>

\* main after Cli::parse()
Init ==
    /\ pc = "load"
    /\ pdf \in {None, "doc.pdf"}
    /\ \E c \in Configs : chunk_size = c[1] /\ chunk_overlap = c[2]
    /\ overflow_checks \in BOOLEAN
    /\ document = <<>>
    /\ load_failed = FALSE
    /\ words = <<>>
    /\ chunks = <<>>
    /\ start = 0
    /\ iters = 0
    /\ spans = <<>>
    /\ it = 0
    /\ submitted = <<>>
    /\ embeddings = <<>>
    /\ store = <<>>
    /\ index_builds = 0
    /\ history = <<>>
    /\ error = None

Next ==
    \/ LoadDefault
    \/ LoadPdfOk
    \/ LoadPdfErr
    \/ ChunkEnter
    \/ ChunkIter
    \/ ChunkLoopExit
    \/ StartEmbed
    \/ EmbedDocument
    \/ EmbedDocumentErr
    \/ EmbedBuild
    \/ EmbedBuildErr
    \/ BuildIndex
    \/ \E input \in Prompts : \E ctx \in Retrievals : ChatTurn(input, ctx)
    \/ ChatErr
    \/ \E input \in Prompts : ChatExit(input)

Spec == Init /\ [][Next]_vars

----------------------------------------------------------------------------
\* Properties of chunk_text (checked under ChunkSpec).

\* chunk_text has returned
Returned == pc = "chunked"

\* size > overlap >= 0
ValidConfig == chunk_size > chunk_overlap /\ chunk_overlap >= 0

\* the whitespace-split word sequence of the text
TextWords == SplitWhitespace(document)

\* the word sequence of chunk i
ChunkWords(i) == SplitWhitespace(chunks[i])

Drop(s, n) == SubSeq(s, n + 1, Len(s))

FirstN(s, n) == SubSeq(s, 1, n)

LastN(s, n) == SubSeq(s, Len(s) - n + 1, Len(s))

\* the chunks from the i-th on, each but the first without its first overlap words
RECURSIVE Reassemble(_)
Reassemble(i) ==
    IF i > Len(chunks) THEN <<>>
    ELSE Drop(ChunkWords(i), IF i = 1 THEN 0 ELSE chunk_overlap) \o Reassemble(i + 1)

\* C1: for a text with at least one word and size > overlap >= 0, the chunks in
\* order, each but the first without its first overlap words, concatenate to
\* exactly the whitespace-split word sequence of the text.
C1_ChunkCoverage ==
    (Returned /\ ValidConfig /\ Len(TextWords) >= 1)
        => Reassemble(1) = TextWords

C1_Witness ==
    /\ Returned /\ ValidConfig
    /\ chunk_overlap >= 1
    /\ Len(chunks) >= 3
    /\ Len(chunks[Len(chunks)]) < Len(chunks[1])

\* ceil(a / b) for b > 0
CeilDiv(a, b) == -((-a) \div b)

\* C3 as stated: for W words and size > overlap >= 0, chunk_text returns after
\* exactly ceil((W - overlap) / (size - overlap)) executions of the loop body.
C3_StepCountAsStated ==
    (Returned /\ ValidConfig)
        => iters = CeilDiv(Len(words) - chunk_overlap, chunk_size - chunk_overlap)

\* the number of chunks of W words: none for no word, one for a text of at most
\* overlap words, ceil((W - overlap) / (size - overlap)) otherwise
ExpectedChunks(W, size, overlap) ==
    IF W = 0 THEN 0
    ELSE IF W <= overlap THEN 1
    ELSE CeilDiv(W - overlap, size - overlap)

\* C3 (amended): for size > overlap >= 0 chunk_text terminates (the loop body
\* never runs more than ExpectedChunks times, and the cut-off of the model is
\* never what stops it), and it returns after exactly
\* ceil((W - overlap) / (size - overlap)) executions when W > overlap, after 1
\* when 1 <= W <= overlap and after 0 when W = 0; the number of chunks equals
\* the number of executions.
C3_StepCount ==
    ValidConfig =>
        /\ pc \in {"while", "chunked"} =>
              /\ iters <= ExpectedChunks(Len(words), chunk_size, chunk_overlap)
              /\ iters = Len(chunks)
        /\ pc = "while" => iters < MaxIter
        /\ Returned => iters = ExpectedChunks(Len(words), chunk_size, chunk_overlap)
        /\ pc # "panicked"

C3_Witness ==
    /\ Returned /\ ValidConfig
    /\ Len(words) > chunk_size
    /\ chunk_overlap >= 1
    /\ iters >= 2
    /\ iters = CeilDiv(Len(words) - chunk_overlap, chunk_size - chunk_overlap)

\* the words of window i (0-based): positions [i*step, min(i*step + size, W))
Window(i) ==
    SubSeq(TextWords,
           i * (chunk_size - chunk_overlap) + 1,
           Min(i * (chunk_size - chunk_overlap) + chunk_size, Len(TextWords)))

\* C5: for size > overlap >= 0, chunk i (0-based) is the space-joined words at
\* positions [i*(size-overlap), min(i*(size-overlap)+size, W)), the last chunk
\* is the first window whose end reaches W, and
\* chunk("a b c d e f g h", 3, 1) = ["a b c", "c d e", "e f g", "g h"].
C5_WindowContents ==
    (Returned /\ ValidConfig) =>
        /\ \A i \in 1..Len(chunks) :
              /\ chunks[i] = JoinWith(Window(i - 1), <<" ">>)
              /\ ((i - 1) * (chunk_size - chunk_overlap) + chunk_size >= Len(TextWords))
                    <=> i = Len(chunks)
        /\ Len(TextWords) > 0 => Len(chunks) > 0
        /\ (document = ExampleText /\ chunk_size = 3 /\ chunk_overlap = 1)
              => chunks = << <<"a", " ", "b", " ", "c">>,
                             <<"c", " ", "d", " ", "e">>,
                             <<"e", " ", "f", " ", "g">>,
                             <<"g", " ", "h">> >>

C5_Witness ==
    /\ Returned
    /\ document = ExampleText /\ chunk_size = 3 /\ chunk_overlap = 1
    /\ Len(chunks) = 4

\* C6: for size > overlap >= 0, the last overlap words of every chunk are the
\* first overlap words of the next one, the next window starts exactly overlap
\* positions before the end of the previous one, and so no position is skipped.
C6_AdjacentOverlap ==
    (Returned /\ ValidConfig) =>
        \A i \in 1..(Len(chunks) - 1) :
            /\ Len(ChunkWords(i)) >= chunk_overlap
            /\ Len(ChunkWords(i + 1)) >= chunk_overlap
            /\ LastN(ChunkWords(i), chunk_overlap) = FirstN(ChunkWords(i + 1), chunk_overlap)
            /\ spans[i + 1][1] = spans[i][2] - chunk_overlap
            /\ spans[i + 1][1] <= spans[i][2]

C6_Witness ==
    /\ Returned /\ ValidConfig
    /\ chunk_overlap = 2
    /\ Len(chunks) >= 2
    /\ spans[2][1] = spans[1][2] - 2

\* C7: for size > overlap >= 0, chunk_text returns a non-empty sequence exactly
\* when the text holds at least one whitespace-separated word.
C7_NonEmptyIffWords ==
    (Returned /\ ValidConfig) => (chunks # <<>> <=> Len(TextWords) >= 1)

C7_Witness ==
    /\ Returned /\ ValidConfig
    /\ document # <<>>
    /\ TextWords = <<>>
    /\ chunks = <<>>

----------------------------------------------------------------------------
\* Properties of main (checked under Spec).

\* chunk_text has returned to main
PastChunking == pc \in {"chunked", "embed", "store", "chat", "done"}

\* C2 as stated: with overlap >= size the chunking loop never runs and
\* chunk_text never returns a chunk sequence: the run fails with a
\* ConfigurationError instead.
C2_OverlapRejected ==
    chunk_overlap >= chunk_size =>
        /\ iters = 0
        /\ ~PastChunking
        /\ (pc \in {"failed", "panicked"} /\ ~load_failed) => error = "ConfigurationError"

\* C4 as stated: with size = 0 chunking never returns a chunk sequence and
\* never runs its loop: the run fails with a ConfigurationError instead.
C4_ZeroSizeRejected ==
    chunk_size = 0 =>
        /\ chunks = <<>>
        /\ pc \notin {"chunked", "embed", "store", "chat", "done"}
        /\ (pc = "failed" /\ error # "Failed to extract text from PDF")
              => error = "ConfigurationError"

\* embedding i belongs to chunk i, and there are as many embeddings as chunks
Aligned(embs) ==
    /\ Len(embs) = Len(chunks)
    /\ \A i \in 1..Len(chunks) : embs[i].document = chunks[i]

C9_LoadFailureIsFatal ==
    load_failed =>
        /\ pc = "failed"
        /\ error = "Failed to extract text from PDF"
        /\ words = <<>> /\ chunks = <<>> /\ iters = 0
        /\ it = 0 /\ submitted = <<>> /\ embeddings = <<>>
        /\ store = <<>> /\ index_builds = 0
        /\ history = <<>>
        /\ ~ENABLED Next

C9_Witness ==
    /\ load_failed
    /\ pdf # None
    /\ pc = "failed"

\* C10: the vector store is built exactly once, from the embeddings of all
\* chunks, before the conversation loop starts; from then on no step changes
\* the store, the embeddings or the chunks.
C10_IndexBuiltOnceThenFrozen ==
    [][ /\ index_builds' <= 1
        /\ pc' \in {"chat", "done"} =>
              /\ index_builds' = 1
              /\ Len(store') = Len(chunks')
              /\ \A i \in 1..Len(chunks') : store'[i].document = chunks'[i]
        /\ history' # <<>> => index_builds' = 1
        /\ (index_builds = 1 \/ pc = "chat") =>
              /\ store' = store
              /\ index_builds' = index_builds
              /\ embeddings' = embeddings
              /\ chunks' = chunks
      ]_vars

C10_Witness ==
    /\ pc = "done"
    /\ Len(history) = MaxTurns
    /\ index_builds = 1
    /\ Len(store) >= 2

====
